---------------------------- MODULE Spec2Model ----------------------------
(***************************************************************************)
(* A model of the STAC -> Globus Search translation layer of               *)
(* stac_fastapi.globus_search: the CQL2 filter compiler (cql_to_filter),   *)
(* the query builder of post_search, the search executor and the document  *)
(* normalizer (search_doc_to_stac_item).                                   *)
(*                                                                         *)
(* Python values are modelled structurally: a dict is a function from its  *)
(* string keys to its values (a record), a list is a sequence, a scalar    *)
(* literal is a string.  A call either returns a value or raises; both     *)
(* outcomes are values of the model (Return / Raise).                      *)
(***************************************************************************)
EXTENDS Integers, Sequences, FiniteSets, TLC

VARIABLES
    node,       \* the CQL2 tree handed to cql_to_filter
    result,     \* the outcome of cql_to_filter(node), or Pending
    pc,         \* per request: where post_search stands
    req,        \* per request: the search request's parameters
    search,     \* per request: the SearchScrollQuery being built
    sent,       \* per request: the queries handed to _client.scroll
    answered,   \* per request: what _client.scroll returned or raised
    response,   \* per request: the backend's response object, as it is now
    found,      \* per request: what execute_search returned
    outcome,    \* per request: what post_search returned or raised
    native,     \* the asset list a backend document was written from
    given,      \* the backend document as it was handed to the normalizer
    doc,        \* that document object, as it is now
    item,       \* the outcome of search_doc_to_stac_item(doc), or Pending
    again,      \* the outcome of normalizing the item once more, or Pending
    classAggs,  \* the aggregation client's class attributes
    ncalls,     \* how many aggregation calls were made
    call,       \* the arguments of the latest aggregation call
    posted,     \* the queries the latest call handed to client.post_search
    replied,    \* what client.post_search answered during the latest call
    reply,      \* what the latest aggregation call returned or raised
    heap,       \* the SearchScrollQuery objects created so far
    local       \* per request: the object its variable "search" names

compileVars == <<node, result>>

searchVars == <<pc, req, search, sent, answered, response, found, outcome>>

convertVars == <<native, given, doc, item, again>>

aggVars == <<classAggs, ncalls, call, posted, replied, reply>>

heapVars == <<heap, local>>

vars == <<compileVars, searchVars, convertVars, aggVars, heapVars>>

---------------------------------------------------------------------------
(* Python values and call outcomes *)

EmptyDict == [k \in {} |-> k]

Has(d, k) == k \in DOMAIN d

Return(v) == [kind |-> "return", val |-> v]

Raise(e, m) == [kind |-> "raise", exc |-> e, msg |-> m]

Pending == [kind |-> "pending"]

---------------------------------------------------------------------------
(* database_logic.py: the filter compiler *)

PassThroughFields == {"id", "collection", "geometry"}

\* a variant that prefixes every field name, the pass-through ones included
cql_translate_fieldname_AlwaysPrefix(fieldname) == "properties." \o fieldname

cql_translate_fieldname(fieldname) ==
    IF fieldname \in PassThroughFields
    THEN fieldname
    ELSE "properties." \o fieldname

\* cql_query["args"]: KeyError when the node has no "args" key
GetArgs(cql_query) ==
    IF Has(cql_query, "args")
    THEN Return(cql_query["args"])
    ELSE Raise("KeyError", "'args'")

\* args[i]: IndexError when the list is too short (i is the Python index)
GetItem(args, i) ==
    IF i + 1 <= Len(args)
    THEN Return(args[i + 1])
    ELSE Raise("IndexError", "list index out of range")

\* cql_query["args"][0]["property"]
GetProperty(cql_query) ==
    LET a == GetArgs(cql_query) IN
    IF a.kind = "raise" THEN a
    ELSE LET x == GetItem(a.val, 0) IN
         IF x.kind = "raise" THEN x
         ELSE IF Has(x.val, "property")
              THEN Return(x.val["property"])
              ELSE Raise("KeyError", "'property'")

\* cql_query["args"][1]
GetValue(cql_query) ==
    LET a == GetArgs(cql_query) IN
    IF a.kind = "raise" THEN a ELSE GetItem(a.val, 1)

\* assert len(cql_query["args"]) == 2
AssertTwoArgs(cql_query) ==
    LET a == GetArgs(cql_query) IN
    IF a.kind = "raise" THEN a
    ELSE IF Len(a.val) = 2
         THEN Return(TRUE)
         ELSE Raise("AssertionError", "")

\* {"type": "match_any", "field_name": args[0]["property"], "values": [args[1]]}
MatchAnyOfEquals(cql_query) ==
    LET ok == AssertTwoArgs(cql_query) IN
    IF ok.kind = "raise" THEN ok
    ELSE LET p == GetProperty(cql_query) IN
         IF p.kind = "raise" THEN p
         ELSE Return([type |-> "match_any",
                      field_name |-> p.val,
                      values |-> <<GetValue(cql_query).val>>])

\* the range filter of "<=" (upper = TRUE) and ">=" (upper = FALSE)
RangeFilter(cql_query, upper) ==
    LET p == GetProperty(cql_query) IN
    IF p.kind = "raise" THEN p
    ELSE LET v == GetValue(cql_query) IN
         IF v.kind = "raise" THEN v
         ELSE Return([type |-> "range",
                      field_name |-> cql_translate_fieldname(p.val),
                      values |-> << IF upper
                                    THEN [from |-> "*", to |-> v.val]
                                    ELSE [from |-> v.val, to |-> "*"] >>])

NotYetOps1 == {"<", ">"}
SpatialTodoOps == {"s_contains", "s_disjoint"}
SpatialRejectedOps == {"s_crosses", "s_equals", "s_overlaps", "s_touches"}
ArrayOps == {"a_equals", "a_contains", "a_contained_by", "a_overlaps"}
CaseAccentOps == {"casei", "accenti"}
TemporalInstantOps ==
    {"t_after", "t_before", "t_disjoint", "t_equals", "t_intersects"}
TemporalIntervalOps ==
    {"t_contains", "t_during", "t_finishedby", "t_finishes", "t_meets",
     "t_metby", "t_overlappedby", "t_overlaps", "t_startedby", "t_starts"}
ArithmeticOps == {"+", "-", "*", "/", "%", "div", "^"}

NotSupportedMsg(cql_op) ==
    "The CQL filter type '" \o cql_op \o "' is not supported."

UnrecognizedMsg(cql_op) == "Unrecgonized operator: " \o cql_op

RECURSIVE cql_to_filter(_)

\* a variant that wraps the compiled argument in "not" whatever it is
CompileNot_AlwaysWrap(cql_query) ==
    LET a == GetArgs(cql_query) IN
    IF a.kind = "raise" THEN a
    ELSE LET x == GetItem(a.val, 0) IN
         IF x.kind = "raise" THEN x
         ELSE LET r == cql_to_filter(x.val) IN
              IF r.kind = "raise" THEN r
              ELSE LET inner == r.val IN
                   IF ~Has(inner, "type") THEN Raise("KeyError", "'type'")
                   ELSE Return([type |-> "not", filter |-> inner])

\* case "not"
CompileNot(cql_query) ==
    LET a == GetArgs(cql_query) IN
    IF a.kind = "raise" THEN a
    ELSE LET x == GetItem(a.val, 0) IN
         IF x.kind = "raise" THEN x
         ELSE LET r == cql_to_filter(x.val) IN
              IF r.kind = "raise" THEN r
              ELSE LET inner == r.val IN
                   IF ~Has(inner, "type") THEN Raise("KeyError", "'type'")
                   ELSE IF inner["type"] = "not"
                        THEN Return(inner["filter"])
                        ELSE Return([type |-> "not", filter |-> inner])

\* a variant that leaves empty compiled filters out of the list
CompileAndOr_DropEmpty(cql_query) ==
    LET a == GetArgs(cql_query) IN
    IF a.kind = "raise" THEN a
    ELSE LET rs == [i \in 1..Len(a.val) |-> cql_to_filter(a.val[i])]
             bad == {i \in 1..Len(a.val) : rs[i].kind = "raise"}
             NonEmpty(f) == f # EmptyDict
         IN  IF bad # {}
             THEN rs[CHOOSE i \in bad : \A j \in bad : i <= j]
             ELSE Return([type |-> cql_query["op"],
                          filters |->
                              SelectSeq([i \in 1..Len(a.val) |-> rs[i].val],
                                        NonEmpty)])

\* case "and" | "or": the list comprehension raises at its first failing argument
CompileAndOr(cql_query) ==
    LET a == GetArgs(cql_query) IN
    IF a.kind = "raise" THEN a
    ELSE LET rs == [i \in 1..Len(a.val) |-> cql_to_filter(a.val[i])]
             bad == {i \in 1..Len(a.val) : rs[i].kind = "raise"}
         IN  IF bad # {}
             THEN rs[CHOOSE i \in bad : \A j \in bad : i <= j]
             ELSE Return([type |-> cql_query["op"],
                          filters |-> [i \in 1..Len(a.val) |-> rs[i].val]])

\* case "<>"
CompileNotEquals(cql_query) ==
    LET m == MatchAnyOfEquals(cql_query) IN
    IF m.kind = "raise" THEN m
    ELSE Return([type |-> "not", filter |-> m.val])

\* case "isNull"
CompileIsNull(cql_query) ==
    LET p == GetProperty(cql_query) IN
    IF p.kind = "raise" THEN p
    ELSE Return([type |-> "not",
                 filter |-> [type |-> "exists",
                             field_name |-> cql_translate_fieldname(p.val)]])

\* a variant that translates the field name of "in"
CompileIn_Translated(cql_query) ==
    LET p == GetProperty(cql_query) IN
    IF p.kind = "raise" THEN p
    ELSE LET v == GetValue(cql_query) IN
         IF v.kind = "raise" THEN v
         ELSE Return([type |-> "match_any",
                      field_name |-> cql_translate_fieldname(p.val),
                      values |-> v.val])

\* case "in"
CompileIn(cql_query) ==
    LET p == GetProperty(cql_query) IN
    IF p.kind = "raise" THEN p
    ELSE LET v == GetValue(cql_query) IN
         IF v.kind = "raise" THEN v
         ELSE Return([type |-> "match_any",
                      field_name |-> p.val,
                      values |-> v.val])

\* cql_op[2:] of "s_intersects" | "s_within"
SpatialRelation(cql_op) ==
    IF cql_op = "s_intersects" THEN "intersects" ELSE "within"

\* case "s_intersects" | "s_within"
CompileSpatial(cql_query) ==
    LET v == GetValue(cql_query) IN
    IF v.kind = "raise" THEN v
    ELSE Return([type |-> "geo_shape",
                 relation |-> SpatialRelation(cql_query["op"]),
                 shape |-> v.val])

\* a variant that collapses every rejection into "not implemented"
RaiseUnsupported_AllNotImplemented(cql_op) ==
    Raise("NotImplementedError", UnrecognizedMsg(cql_op))

\* a variant that collapses every rejection into "unsupported by design"
RaiseUnsupported_AllValueError(cql_op) ==
    Raise("ValueError", NotSupportedMsg(cql_op))

\* the raising arms of the match statement (rejected and unknown operators)
RaiseUnsupported(cql_op) ==
    CASE cql_op \in NotYetOps1 ->
           Raise("NotImplementedError",
                 "'>' and '<' filters are not supported yet")
      [] cql_op = "like" ->
           Raise("NotImplementedError", "'like' filter is not supported yet")
      [] cql_op = "between" ->
           Raise("NotImplementedError",
                 "'between' filter is not supported yet")
      [] cql_op \in SpatialTodoOps ->
           Raise("NotImplementedError",
                 "'s_contains' and 's_disjoint' filters are not supported yet")
      [] cql_op \in SpatialRejectedOps ->
           Raise("ValueError", NotSupportedMsg(cql_op))
      [] cql_op \in ArrayOps -> Raise("ValueError", NotSupportedMsg(cql_op))
      [] cql_op \in CaseAccentOps ->
           Raise("ValueError", NotSupportedMsg(cql_op))
      [] cql_op \in TemporalInstantOps ->
           Raise("NotImplementedError",
                 "temporal comparisons supporting intervals and instants are not supported yet")
      [] cql_op \in TemporalIntervalOps ->
           Raise("NotImplementedError",
                 "temporal comparisons supporting intervals are not supported yet")
      [] cql_op \in ArithmeticOps ->
           Raise("ValueError", NotSupportedMsg(cql_op))
      [] OTHER -> Raise("NotImplementedError", UnrecognizedMsg(cql_op))

\* match cql_op: the arms that build a filter, then the raising arms
CompileOp(cql_query) ==
    LET cql_op == cql_query["op"] IN
    CASE cql_op = "not" -> CompileNot(cql_query)
      [] cql_op \in {"and", "or"} -> CompileAndOr(cql_query)
      [] cql_op = "=" -> MatchAnyOfEquals(cql_query)
      [] cql_op = "<>" -> CompileNotEquals(cql_query)
      [] cql_op = "isNull" -> CompileIsNull(cql_query)
      [] cql_op = "<=" -> RangeFilter(cql_query, TRUE)
      [] cql_op = ">=" -> RangeFilter(cql_query, FALSE)
      [] cql_op = "in" -> CompileIn(cql_query)
      [] cql_op \in {"s_intersects", "s_within"} -> CompileSpatial(cql_query)
      [] OTHER -> RaiseUnsupported(cql_op)

\* a variant that reads cql_query["op"] without testing for the key
cql_to_filter_RequireOp(cql_query) ==
    IF ~Has(cql_query, "op")
    THEN Raise("KeyError", "'op'")
    ELSE CompileOp(cql_query)

cql_to_filter(cql_query) ==
    IF ~Has(cql_query, "op")
    THEN Return(EmptyDict)
    ELSE CompileOp(cql_query)

---------------------------------------------------------------------------
(* Optional values (None or a value) and dict updates *)

Some(v) == [given |-> TRUE, val |-> v]

\* None where a list or a dict may stand
NoneList == [given |-> FALSE, val |-> <<>>]

\* None where a string may stand
NoneStr == [given |-> FALSE, val |-> ""]

\* None where an integer may stand
NoneInt == [given |-> FALSE, val |-> 0]

\* "if x:" for a list or dict that may be None
Truthy(x) == x.given /\ x.val # <<>>

\* "if x:" for a string that may be None
TruthyStr(x) == x.given /\ x.val # ""

\* d[k] = v
Put(d, k, v) == [x \in (DOMAIN d) \cup {k} |-> IF x = k THEN v ELSE d[x]]

\* d.pop(k)
Drop(d, k) == [x \in (DOMAIN d) \ {k} |-> d[x]]

\* d.get(k, default)
Get(d, k, default) == IF Has(d, k) THEN d[k] ELSE default

---------------------------------------------------------------------------
(* convert.py: the document normalizer *)

\* The values under "assets" and "alternate" carry their Python type, on
\* which the loops of search_doc_to_stac_item depend: a list of records, a
\* dict, or a str.  The "alternate" of a backend asset is a list.
PyList(v) == [py |-> "list", v |-> v]

PyDict(v) == [py |-> "dict", v |-> v]

PyStr(v) == [py |-> "str", v |-> v]

\* the index of the last record of list that carries name n
LastNamed(list, n) ==
    CHOOSE i \in 1..Len(list) :
        /\ Has(list[i], "name") /\ list[i]["name"] = n
        /\ \A j \in 1..Len(list) :
               (Has(list[j], "name") /\ list[j]["name"] = n) => j <= i

NamesOf(list) ==
    {list[i]["name"] : i \in {j \in 1..Len(list) : Has(list[j], "name")}}

\* a variant that leaves each alternate its name
PromoteAlternates_KeepName(value) ==
    [n \in NamesOf(value) |-> value[LastNamed(value, n)]]

\* temp: each named alternate under its name, without the name
PromoteAlternates(value) ==
    [n \in NamesOf(value) |-> Drop(value[LastNamed(value, n)], "name")]

\* the asset record once the loop over its keys has run
AssetAfter(asset) ==
    LET popped == IF Has(asset, "name") THEN Drop(asset, "name") ELSE asset
    IN  IF Has(asset, "alternate")
        THEN Put(popped, "alternate",
                 PyDict(PromoteAlternates(asset["alternate"].v)))
        ELSE popped

\* asset[key] where asset is a str and key is a str
StringIndexError ==
    Raise("TypeError", "string indices must be integers, not 'str'")

\* a variant that fails on a nameless asset
search_doc_to_stac_item_NameRequired(search_doc) ==
    LET content == search_doc["entries"][1]["content"] IN
    IF ~Has(content, "assets") THEN Raise("KeyError", "'assets'")
    ELSE LET list_assets == content["assets"] IN
         IF list_assets.py # "list" THEN StringIndexError
         ELSE IF \E i \in 1..Len(list_assets.v) : ~Has(list_assets.v[i], "name")
         THEN Raise("KeyError", "'name'")
         ELSE Return(Put(content, "assets",
                  PyDict([n \in NamesOf(list_assets.v) |->
                      AssetAfter(list_assets.v[LastNamed(list_assets.v, n)])])))

\* a variant that also fails on an assets value with nothing to iterate
search_doc_to_stac_item_ListOnly(search_doc) ==
    LET content == search_doc["entries"][1]["content"] IN
    IF ~Has(content, "assets") THEN Raise("KeyError", "'assets'")
    ELSE LET list_assets == content["assets"] IN
         IF list_assets.py # "list" THEN StringIndexError
         ELSE Return(Put(content, "assets",
                  PyDict([n \in NamesOf(list_assets.v) |->
                      AssetAfter(list_assets.v[LastNamed(list_assets.v, n)])])))

\* "for asset in list_assets" runs over the records of a list, over the keys
\* of a dict and over the characters of a str; on a key or a character,
\* "for key in list(asset)" runs over its characters and asset[key] raises.
search_doc_to_stac_item(search_doc) ==
    LET content == search_doc["entries"][1]["content"] IN
    IF ~Has(content, "assets") THEN Raise("KeyError", "'assets'")
    ELSE LET list_assets == content["assets"] IN
         CASE list_assets.py = "list" ->
                Return(Put(content, "assets",
                    PyDict([n \in NamesOf(list_assets.v) |->
                        AssetAfter(list_assets.v[LastNamed(list_assets.v, n)])])))
           [] list_assets.py = "dict" ->
                IF \E k \in DOMAIN list_assets.v : Len(k) > 0
                THEN StringIndexError
                ELSE Return(Put(content, "assets", PyDict(EmptyDict)))
           [] list_assets.py = "str" ->
                IF Len(list_assets.v) > 0
                THEN StringIndexError
                ELSE Return(Put(content, "assets", PyDict(EmptyDict)))

\* the backend document after the call: dict(...) copied the content only, so
\* the asset records of a list were changed in place
DocAfterNormalize(search_doc) ==
    LET content == search_doc["entries"][1]["content"] IN
    IF ~Has(content, "assets") THEN search_doc
    ELSE IF content["assets"].py # "list" THEN search_doc
    ELSE [entries |->
            <<[content |->
                 Put(content, "assets",
                     PyList([i \in 1..Len(content["assets"].v) |->
                                AssetAfter(content["assets"].v[i])]))]>>]

---------------------------------------------------------------------------
(* scripts/ingest_data.py: how the ingest script writes the assets *)

RECURSIVE JoinWith(_, _)
\* sep.join(parts)
JoinWith(parts, sep) ==
    IF Len(parts) = 0 THEN ""
    ELSE IF Len(parts) = 1 THEN parts[1]
    ELSE parts[1] \o sep \o JoinWith(Tail(parts), sep)

JsonString(str) == "\"" \o str \o "\""

\* the keys an asset record may carry, in the order they are written
AssetKeys == <<"name", "href", "alternate">>

KeysOf(rec) == SelectSeq(AssetKeys, LAMBDA k : Has(rec, k))

\* a record whose values are strings
JsonFlatObject(rec) ==
    "{" \o JoinWith([i \in 1..Len(KeysOf(rec)) |->
                        JsonString(KeysOf(rec)[i]) \o ":"
                        \o JsonString(rec[KeysOf(rec)[i]])], ",") \o "}"

JsonFlatList(list) ==
    "[" \o JoinWith([i \in 1..Len(list) |-> JsonFlatObject(list[i])], ",") \o "]"

\* an asset record: strings, and a list of records under "alternate"
JsonAsset(rec) ==
    "{" \o JoinWith([i \in 1..Len(KeysOf(rec)) |->
                        JsonString(KeysOf(rec)[i]) \o ":"
                        \o (IF KeysOf(rec)[i] = "alternate"
                            THEN JsonFlatList(rec["alternate"].v)
                            ELSE JsonString(rec[KeysOf(rec)[i]]))], ",") \o "}"

\* json.dumps(content["assets"], separators=(",", ":"))
json_dumps(list) ==
    "[" \o JoinWith([i \in 1..Len(list) |-> JsonAsset(list[i])], ",") \o "]"

\* format_item: the content with its assets replaced by their JSON text
format_item(content) ==
    Put(content, "assets", PyStr(json_dumps(content["assets"].v)))

---------------------------------------------------------------------------
(* database_logic.py: the query builder and the search executor *)

\* globus_sdk.SearchScrollQuery(): a dict with no key set
make_search == EmptyDict

\* SearchQuery.add_filter(field_name, values, type=...)
add_filter(query, field_name, values, type) ==
    Put(query, "filters",
        Append(Get(query, "filters", <<>>),
               [field_name |-> field_name, values |-> values, type |-> type]))

apply_ids_filter(query, item_ids) ==
    add_filter(query, "id", item_ids, "match_any")

apply_collections_filter(query, collection_ids) ==
    add_filter(query, "collection", collection_ids, "match_any")

\* west, south, east, north = bbox
apply_bbox_filter(query, bbox) ==
    IF Len(bbox) > 4
    THEN Raise("ValueError", "too many values to unpack (expected 4)")
    ELSE IF Len(bbox) < 4
    THEN Raise("ValueError", "not enough values to unpack (expected 4, got "
                             \o ToString(Len(bbox)) \o ")")
    ELSE Return(
           Put(query, "filters",
               Append(Get(query, "filters", <<>>),
                      [type |-> "geo_bounding_box",
                       field_name |-> "geometry",
                       top_left |-> [lat |-> bbox[4], lon |-> bbox[1]],
                       bottom_right |-> [lat |-> bbox[2], lon |-> bbox[3]]])))

\* a variant that swallows a compilation error and keeps the query as it was
apply_cql2_filter_Swallow(query, filter_) ==
    IF Truthy(filter_)
    THEN LET r == cql_to_filter(filter_.val) IN
         IF r.kind = "raise" THEN Return(query)
         ELSE Return(Put(query, "filters",
                         Append(Get(query, "filters", <<>>), r.val)))
    ELSE Return(query)

apply_cql2_filter(query, filter_) ==
    IF Truthy(filter_)
    THEN LET r == cql_to_filter(filter_.val) IN
         IF r.kind = "raise" THEN r
         ELSE Return(Put(query, "filters",
                         Append(Get(query, "filters", <<>>), r.val)))
    ELSE Return(query)

\* a variant that never sets the match-all term
PrepareQuery_NoDefault(query, limit, token) ==
    LET q2 == Put(query, "limit", limit)
    IN  IF TruthyStr(token) THEN Put(q2, "marker", token.val) ELSE q2

\* a variant that attaches every token that is not None
PrepareQuery_MarkerWhenGiven(query, limit, token) ==
    LET filters == Get(query, "filters", <<>>)
        q1 == IF Len(filters) = 0 THEN Put(query, "q", "*") ELSE query
        q2 == Put(q1, "limit", limit)
    IN  IF token.given THEN Put(q2, "marker", token.val) ELSE q2

\* execute_search up to the backend call: the query handed to _client.scroll
PrepareQuery(query, limit, token) ==
    LET filters == Get(query, "filters", <<>>)
        q1 == IF Len(filters) = 0 THEN Put(query, "q", "*") ELSE query
        q2 == Put(q1, "limit", limit)
    IN  IF TruthyStr(token) THEN Put(q2, "marker", token.val) ELSE q2

\* a variant that answers a backend error with an empty page
HandleSearchAPIError_EmptyPage(e) ==
    Return([gmeta |-> <<>>, total |-> [given |-> TRUE, val |-> 0],
            marker |-> [given |-> FALSE, val |-> ""]])

\* except globus_sdk.SearchAPIError as e: print(...); raise
HandleSearchAPIError(e) == e

\* the documents on which the comprehension's call raises
FailingDocs(gmeta) ==
    {i \in 1..Len(gmeta) : search_doc_to_stac_item(gmeta[i]).kind = "raise"}

\* a variant that passes every document through the normalizer twice
NormalizeAll_Twice(gmeta) ==
    LET bad == FailingDocs(gmeta)
    IN  IF bad # {}
        THEN search_doc_to_stac_item(gmeta[CHOOSE i \in bad : \A j \in bad : i <= j])
        ELSE Return([i \in 1..Len(gmeta) |->
                        search_doc_to_stac_item(DocAfterNormalize(gmeta[i])).val])

\* [search_doc_to_stac_item(doc) for doc in response["gmeta"]]
NormalizeAll(gmeta) ==
    LET bad == FailingDocs(gmeta)
    IN  IF bad # {}
        THEN search_doc_to_stac_item(gmeta[CHOOSE i \in bad : \A j \in bad : i <= j])
        ELSE Return([i \in 1..Len(gmeta) |-> search_doc_to_stac_item(gmeta[i]).val])

\* response["gmeta"] after the comprehension: the documents it reached
\* before it raised were changed in place
GmetaAfter(gmeta) ==
    [i \in 1..Len(gmeta) |->
        IF \E j \in FailingDocs(gmeta) : j < i
        THEN gmeta[i]
        ELSE DocAfterNormalize(gmeta[i])]

---------------------------------------------------------------------------
(* core.py: post_search *)

\* a variant that keeps the first four numbers of a 6-element box
ReduceBBox_FirstFour(bbox) ==
    IF Len(bbox) = 6 THEN <<bbox[1], bbox[2], bbox[3], bbox[4]>> ELSE bbox

\* if len(bbox) == 6: bbox = [bbox[0], bbox[1], bbox[3], bbox[4]]
ReduceBBox(bbox) ==
    IF Len(bbox) = 6 THEN <<bbox[1], bbox[2], bbox[4], bbox[5]>> ELSE bbox

HTTPException(status_code, detail) ==
    [kind |-> "raise", exc |-> "HTTPException",
     status_code |-> status_code, detail |-> detail]

\* a step of the builder that stopped: where, and with what
Stopped(at, r) == [at |-> at, res |-> r]

\* post_search from its first apply step up to the call of execute_search,
\* s0 being what its query object holds when the steps begin: the query
\* built from the request, or the exception that ended the request and the
\* step raising it
BuildQueryFrom(s0, rq) ==
    LET s1 == IF Truthy(rq.ids) THEN apply_ids_filter(s0, rq.ids.val) ELSE s0
        s2 == IF Truthy(rq.collections)
              THEN apply_collections_filter(s1, rq.collections.val)
              ELSE s1
    IN  IF TruthyStr(rq.datetime)
        THEN \* DatabaseLogic defines no apply_datetime_filter
             Stopped("datetime",
                 Raise("AttributeError",
                       "'DatabaseLogic' object has no attribute 'apply_datetime_filter'"))
        ELSE
        LET b == IF Truthy(rq.bbox)
                 THEN apply_bbox_filter(s2, ReduceBBox(rq.bbox.val))
                 ELSE Return(s2)
        IN  IF b.kind = "raise" THEN Stopped("bbox", b)
            ELSE IF Truthy(rq.intersects)
            THEN \* apply_intersects_filter(search, shape) has no parameter "intersects"
                 Stopped("intersects",
                     Raise("TypeError",
                           "DatabaseLogic.apply_intersects_filter() got an unexpected keyword argument 'intersects'"))
            ELSE
            LET c == apply_cql2_filter(b.val, rq.filter) IN
            IF c.kind = "raise"
            THEN Stopped("filter",
                     HTTPException(400, "Error with cql2_json filter: " \o c.msg))
            ELSE Stopped("built", c)

\* post_search up to the call of execute_search, on the query object that
\* make_search() has just created
BuildQuery(rq) == BuildQueryFrom(make_search, rq)

\* getattr(search_request, "limit", 10)
DefaultLimit == 10

LimitOf(rq) == IF rq.limit.given THEN rq.limit.val ELSE DefaultLimit

\* PagingLinks(request, next=next_marker).get_links()
PagingLinks(next) ==
    IF next.given THEN <<[rel |-> "next", token |-> next.val]>> ELSE <<>>

ItemCollection(items, total, next_marker) ==
    [type |-> "FeatureCollection",
     features |-> items,
     links |-> PagingLinks(next_marker),
     numReturned |-> Len(items),
     numMatched |-> total,
     context |-> [matched |-> total]]

\* A URL is kept in the parsed form urlparse gives it and geturl writes back:
\* its scheme, its netloc and its path.
Url(scheme, netloc, path) == [scheme |-> scheme, netloc |-> netloc, path |-> path]

\* urlparse(str(link.get("href", ""))) of a link without "href"
EmptyUrl == Url("", "", "")

\* the netlocs with "localhost" in them
LocalhostNetlocs == {"localhost", "localhost:8000"}

\* one pass of the inner loop of item_collection on a link's href
RewriteHref(link_href, request_url_href) ==
    LET h1 == IF request_url_href.netloc \in LocalhostNetlocs
              THEN [link_href EXCEPT !.scheme = "http"]
              ELSE link_href
    IN  [h1 EXCEPT !.netloc = request_url_href.netloc]

\* the inner loop of item_collection over one item's links
RewriteLinks(links, request_url_href) ==
    [index \in 1..Len(links) |->
        Put(links[index], "href",
            RewriteHref(Get(links[index], "href", EmptyUrl), request_url_href))]

\* an item after the loop: its own "links" list was rewritten in place; an
\* item without "links" is left alone
ItemAfterRewrite(an_item, request_url_href) ==
    IF Has(an_item, "links")
    THEN Put(an_item, "links", RewriteLinks(an_item["links"], request_url_href))
    ELSE an_item

\* the variable "links" of item_collection after the loop over the items:
\* every pass assigns it item.get("links", []), so the last item decides
LinksAfterLoop(paging, items, request_url_href) ==
    IF Len(items) = 0
    THEN paging
    ELSE RewriteLinks(Get(items[Len(items)], "links", <<>>), request_url_href)

\* request.query_params.get("token", token)
QueryParamToken(query_token, token) ==
    IF query_token.given THEN query_token ELSE token

\* item_collection up to the call of execute_search
BuildItemsQuery(collection_id) ==
    IF collection_id # ""
    THEN apply_collections_filter(make_search, <<collection_id>>)
    ELSE make_search

\* item_collection after execute_search: the page handed back
ItemCollectionOfItems(items, total, next_marker, request_url_href) ==
    [type |-> "FeatureCollection",
     features |-> [i \in 1..Len(items) |-> ItemAfterRewrite(items[i], request_url_href)],
     links |-> LinksAfterLoop(PagingLinks(next_marker), items, request_url_href),
     numReturned |-> Len(items),
     numMatched |-> total,
     context |-> [matched |-> total]]

---------------------------------------------------------------------------
(* extensions/aggregration/client.py: the aggregation client *)

\* the names of the catalog-specific frequency distributions
CMIP6Names ==
    << "cmip6_activity_id_frequency",
       "cmip6_cf_standard_name_frequency",
       "cmip6_data_specs_version_frequency",
       "cmip6_experiment_id_frequency",
       "cmip6_experiment_title_frequency",
       "cmip6_frequency_frequency",
       "cmip6_further_info_url_frequency",
       "cmip6_grid_frequency",
       "cmip6_grid_label_frequency",
       "cmip6_institution_frequency",
       "cmip6_institution_id_frequency",
       "cmip6_mip_era_frequency",
       "cmip6_nominal_resolution_frequency",
       "cmip6_source_id_frequency",
       "cmip6_source_type_frequency",
       "cmip6_sub_experiment_id_frequency",
       "cmip6_table_id_frequency",
       "cmip6_variable_id_frequency",
       "cmip6_variable_long_name_frequency",
       "cmip6_variant_label_frequency" >>

CMIP6_DEFAULT_AGGREGATIONS ==
    [i \in 1..Len(CMIP6Names) |->
        [frequency_distribution_data_type |-> "string",
         name |-> CMIP6Names[i],
         data_type |-> "frequency_distribution"]]

DEFAULT_AGGREGATIONS == <<[name |-> "total_count", data_type |-> "integer"]>>

\* the two lists as attributes of the class, shared by every call
ClassAttributes ==
    [CMIP6_DEFAULT_AGGREGATIONS |-> CMIP6_DEFAULT_AGGREGATIONS,
     DEFAULT_AGGREGATIONS |-> DEFAULT_AGGREGATIONS]

\* urljoin(base, path) for a base that is empty or ends in "/"
urljoin(base, path) == base \o path

\* str(request.base_url) if request else ""
BaseUrlOf(kwargs) == IF Has(kwargs, "request") THEN kwargs["request"] ELSE ""

JsonLink(rel, href) == [rel |-> rel, type |-> "application/json", href |-> href]

RootLink(base_url) == <<JsonLink("root", base_url)>>

\* links.extend([collection link, self link of the collection's aggregations])
CollectionLinks(base_url, collection_id) ==
    LET collection_endpoint == urljoin(base_url, "collections/" \o collection_id)
    IN  << JsonLink("collection", collection_endpoint),
           JsonLink("self", urljoin(collection_endpoint \o "/", "aggregations")) >>

AggregationCollection(aggregations, links) ==
    [type |-> "AggregationCollection", aggregations |-> aggregations, links |-> links]

\* a variant that builds the result in the class's own default list
get_aggregations_SharedList(cls, collection_id, kwargs) ==
    LET base_url == BaseUrlOf(kwargs) IN
    IF collection_id.given
    THEN LET aggregations ==
                 cls["DEFAULT_AGGREGATIONS"] \o cls["CMIP6_DEFAULT_AGGREGATIONS"]
         IN  [ret |-> Return(AggregationCollection(aggregations,
                         RootLink(base_url)
                         \o CollectionLinks(base_url, collection_id.val))),
              cls |-> [cls EXCEPT !["DEFAULT_AGGREGATIONS"] = aggregations]]
    ELSE [ret |-> Return(AggregationCollection(cls["DEFAULT_AGGREGATIONS"],
                     RootLink(base_url)
                     \o <<JsonLink("self", urljoin(base_url, "aggregations"))>>)),
          cls |-> cls]

\* get_aggregations: what it returns, and the class attributes after the call
\* (the lists are copied, so the class keeps its own)
get_aggregations(cls, collection_id, kwargs) ==
    LET base_url == BaseUrlOf(kwargs) IN
    IF collection_id.given
    THEN [ret |-> Return(AggregationCollection(
                     cls["CMIP6_DEFAULT_AGGREGATIONS"] \o cls["DEFAULT_AGGREGATIONS"],
                     RootLink(base_url)
                     \o CollectionLinks(base_url, collection_id.val))),
          cls |-> cls]
    ELSE [ret |-> Return(AggregationCollection(cls["DEFAULT_AGGREGATIONS"],
                     RootLink(base_url)
                     \o <<JsonLink("self", urljoin(base_url, "aggregations"))>>)),
          cls |-> cls]

\* globus_sdk.SearchQuery(): a dict with no key set
SearchQuery == EmptyDict

\* the links of aggregate: the root, and the collection's when one is named
AggregateLinks(collection_id, kwargs) ==
    RootLink(BaseUrlOf(kwargs))
    \o (IF collection_id.given
        THEN CollectionLinks(BaseUrlOf(kwargs), collection_id.val)
        ELSE <<>>)

TotalCount(value) ==
    [name |-> "total_count", data_type |-> "integer", value |-> value]

\* the branch of aggregate's loop taken for the name "total_count"
AggregateTotalCount(collection_id, kwargs, backend) ==
    [posted |-> <<Put(SearchQuery, "q", "*")>>,
     ret |-> IF backend.kind = "raise"
             THEN backend
             ELSE Return(AggregationCollection(
                      <<TotalCount(backend.val["total"])>>,
                      AggregateLinks(collection_id, kwargs)))]

\* a variant that looks at the first requested name only
aggregate_FirstNameOnly(aggregations, collection_id, kwargs, backend) ==
    IF ~aggregations.given
    THEN [posted |-> <<>>,
          ret |-> Raise("TypeError", "'NoneType' object is not iterable")]
    ELSE IF Len(aggregations.val) > 0 /\ aggregations.val[1] = "total_count"
    THEN AggregateTotalCount(collection_id, kwargs, backend)
    ELSE [posted |-> <<>>,
          ret |-> Return(AggregationCollection(<<>>,
                      AggregateLinks(collection_id, kwargs)))]

\* aggregate: the queries it hands to client.post_search and what it returns
\* or raises, backend being the answer of client.post_search if it is called.
\* Of kwargs only "request" is read.
aggregate(aggregations, collection_id, kwargs, backend) ==
    IF ~aggregations.given
    THEN [posted |-> <<>>,
          ret |-> Raise("TypeError", "'NoneType' object is not iterable")]
    ELSE IF \E i \in 1..Len(aggregations.val) : aggregations.val[i] = "total_count"
    THEN AggregateTotalCount(collection_id, kwargs, backend)
    ELSE [posted |-> <<>>,
          ret |-> Return(AggregationCollection(<<>>,
                      AggregateLinks(collection_id, kwargs)))]

---------------------------------------------------------------------------
(* The compiler applied to bounded CQL2 trees *)

MaxDepth == 2

Node(op, args) == [op |-> op, args |-> args]

Prop(p) == [property |-> p]

Polygon == [type |-> "Polygon", coordinates |-> <<"0,0", "10,0", "10,10", "0,0">>]

\* a native filter passed where a CQL2 node is expected (it has no "op" key)
NativeNot ==
    [type |-> "not",
     filter |-> [type |-> "match_any", field_name |-> "id", values |-> <<"test">>]]

\* nodes whose argument count is the operator's arity, and nodes without "op"
WellFormedLeaves ==
    << Node("=", <<Prop("collection"), "cmip6">>),
       Node("=", <<Prop("properties.variable_id"), "rsus">>),
       Node("<>", <<Prop("status"), "archived">>),
       Node("<=", <<Prop("temperature"), "30">>),
       Node("<=", <<Prop("id"), "item-9">>),
       Node(">=", <<Prop("temperature"), "10">>),
       Node(">=", <<Prop("collection"), "a">>),
       Node("isNull", <<Prop("optional_field")>>),
       Node("isNull", <<Prop("geometry")>>),
       Node("in", <<Prop("status"), <<"active", "pending", "completed">> >>),
       Node("in", <<Prop("id"), <<>> >>),
       Node("s_intersects", <<Prop("geometry"), Polygon>>),
       Node("s_within", <<Prop("geometry"), Polygon>>),
       Node("and", <<>>),
       EmptyDict,
       Prop("id"),
       NativeNot >>

\* nodes whose argument count differs from the operator's arity
MalformedLeaves ==
    << Node("=", <<Prop("id"), "a", "b">>),
       Node("=", <<Prop("id")>>),
       Node("<>", <<Prop("id"), "a", "b">>),
       Node("<>", <<>>),
       Node("<=", <<Prop("temperature"), "30", "31">>),
       Node("<=", <<Prop("temperature")>>),
       Node(">=", <<Prop("temperature"), "10", "11">>),
       Node(">=", <<>>),
       Node("isNull", <<Prop("optional_field"), Prop("id")>>),
       Node("isNull", <<>>),
       Node("in", <<Prop("status"), <<"active">>, <<"pending">> >>),
       Node("in", <<Prop("status")>>),
       Node("s_intersects", <<Prop("geometry"), Polygon, Polygon>>),
       Node("s_within", <<Prop("geometry")>>),
       Node("not", <<>>),
       [op |-> "not"],
       [op |-> "and"],
       Node("=", <<EmptyDict, "a">>) >>

UnknownOps == {"unknown_op", "", "t_unknown", "NOT"}

RaisingOps ==
    NotYetOps1 \cup {"like", "between"} \cup SpatialTodoOps
    \cup SpatialRejectedOps \cup ArrayOps \cup CaseAccentOps
    \cup TemporalInstantOps \cup TemporalIntervalOps \cup ArithmeticOps
    \cup UnknownOps

\* the argument lists a rejected operator is tried with
RejectedArgs == << <<>>, <<Prop("temp"), "20">>, <<Prop("name"), "a", "b">> >>

\* the nodes put next to the tree under construction in an and/or/not
Siblings ==
    << Node("=", <<Prop("id"), "test-1">>),
       Node("<>", <<Prop("id"), "test-2">>),
       EmptyDict >>

Asset(name, href) == [name |-> name, href |-> href]

\* a backend document: {"entries": [{"content": content}]}
Doc(content) == [entries |-> <<[content |-> content]>>]

Requests == {1}

NoRequest ==
    [handler |-> "none", ids |-> NoneList, collections |-> NoneList, datetime |-> NoneStr,
     bbox |-> NoneList, intersects |-> NoneList, filter |-> NoneList,
     limit |-> NoneInt, token |-> NoneStr]

NoResponse == [gmeta |-> <<>>, total |-> NoneInt, marker |-> NoneStr]

NoOutcome == [kind |-> "none"]

\* no request has arrived
IdleSearch ==
    /\ pc = [r \in Requests |-> "idle"]
    /\ req = [r \in Requests |-> NoRequest]
    /\ search = [r \in Requests |-> make_search]
    /\ sent = [r \in Requests |-> <<>>]
    /\ answered = [r \in Requests |-> NoOutcome]
    /\ response = [r \in Requests |-> NoResponse]
    /\ found = [r \in Requests |-> NoOutcome]
    /\ outcome = [r \in Requests |-> NoOutcome]

\* no tree is being compiled
IdleCompile == node = EmptyDict /\ result = Pending

NoDocument == Doc(EmptyDict)

\* no document is being normalized
IdleConvert ==
    /\ native = <<>>
    /\ given = NoDocument
    /\ doc = NoDocument
    /\ item = Pending
    /\ again = Pending

RECURSIVE Depth(_)
Depth(n) ==
    IF Has(n, "op") /\ n["op"] \in {"not", "and", "or"} /\ Has(n, "args")
    THEN LET ds == {Depth(n["args"][i]) : i \in 1..Len(n["args"])}
         IN  1 + (IF ds = {} THEN 0 ELSE CHOOSE d \in ds : \A e \in ds : e <= d)
    ELSE 0

NoCall ==
    [op |-> "none", aggregations |-> NoneList, collection_id |-> NoneStr,
     kwargs |-> EmptyDict]

\* no aggregation call was made
IdleAggregate ==
    /\ classAggs = ClassAttributes
    /\ ncalls = 0
    /\ call = NoCall
    /\ posted = <<>>
    /\ replied = NoOutcome
    /\ reply = Pending

\* no query object was created
IdleHeap ==
    /\ heap = <<>>
    /\ local = [r \in Requests |-> 0]

InitCompile ==
    /\ IdleSearch
    /\ IdleConvert
    /\ IdleAggregate
    /\ IdleHeap
    /\ result = Pending
    /\ \/ \E i \in DOMAIN WellFormedLeaves : node = WellFormedLeaves[i]
       \/ \E i \in DOMAIN MalformedLeaves : node = MalformedLeaves[i]
       \/ \E op \in RaisingOps, i \in DOMAIN RejectedArgs :
              node = Node(op, RejectedArgs[i])
       \/ \E op \in RaisingOps : node = [op |-> op]

\* the caller wraps the tree in a "not" before compiling it
WrapNot ==
    /\ result = Pending
    /\ Depth(node) < MaxDepth
    /\ node' = Node("not", <<node>>)
    /\ UNCHANGED <<result, searchVars, convertVars, aggVars, heapVars>>

\* a "not" with one argument too many
WrapNotExtra ==
    /\ result = Pending
    /\ Depth(node) < MaxDepth
    /\ node' = Node("not", <<node, Siblings[1]>>)
    /\ UNCHANGED <<result, searchVars, convertVars, aggVars, heapVars>>

\* the caller makes the tree an argument of an "and" / "or"
WrapAndOr ==
    /\ result = Pending
    /\ Depth(node) < MaxDepth
    /\ \E op \in {"and", "or"} :
         \/ node' = Node(op, <<node>>)
         \/ \E i \in DOMAIN Siblings : node' = Node(op, <<node, Siblings[i]>>)
         \/ \E i \in DOMAIN Siblings : node' = Node(op, <<Siblings[i], node>>)
    /\ UNCHANGED <<result, searchVars, convertVars, aggVars, heapVars>>

\* cql_to_filter(node)
Compile ==
    /\ result = Pending
    /\ result' = cql_to_filter(node)
    /\ UNCHANGED <<node, searchVars, convertVars, aggVars, heapVars>>

NextCompile == WrapNot \/ WrapNotExtra \/ WrapAndOr \/ Compile

SpecCompile == InitCompile /\ [][NextCompile]_vars

Compiled == result # Pending

---------------------------------------------------------------------------
(* The normalizer applied to bounded backend documents *)

MaxAssets == 2

\* the asset records a backend document is written from
AssetChoices ==
    { Asset("data", "x"),
      Asset("meta", "y"),
      Asset("data", "other"),
      Asset("", "e"),
      [href |-> "z"],
      [name |-> "data", href |-> "x",
       alternate |-> PyList(<<Asset("s3", "s3://x"), Asset("http", "h")>>)],
      [name |-> "thumb", href |-> "t",
       alternate |-> PyList(<<[href |-> "n"], Asset("s3", "a"), Asset("s3", "b")>>)],
      [href |-> "w", alternate |-> PyList(<<Asset("s3", "q")>>)] }

AssetLists == UNION {[1..n -> AssetChoices] : n \in 0..MaxAssets}

ContentWith(assets) ==
    [id |-> "item-1", type |-> "Feature",
     properties |-> [datetime |-> "2020-01-01T00:00:00Z"],
     assets |-> assets]

\* the backend holds the assets as a list, or as the ingest script's JSON text
InitConvert ==
    /\ IdleCompile
    /\ IdleSearch
    /\ IdleAggregate
    /\ IdleHeap
    /\ item = Pending
    /\ again = Pending
    /\ \E list \in AssetLists :
         /\ native = list
         /\ \/ given = Doc(ContentWith(PyList(list)))
            \/ given = Doc(format_item(ContentWith(PyList(list))))
            \/ list = <<>> /\ given = Doc(Drop(ContentWith(PyList(list)), "assets"))
    /\ doc = given

\* search_doc_to_stac_item(doc)
Normalize ==
    /\ item = Pending
    /\ item' = search_doc_to_stac_item(doc)
    /\ doc' = DocAfterNormalize(doc)
    /\ UNCHANGED <<native, given, again, compileVars, searchVars, aggVars, heapVars>>

\* the item is wrapped back as a document's content and normalized again
Renormalize ==
    /\ item.kind = "return"
    /\ again = Pending
    /\ again' = search_doc_to_stac_item(Doc(item.val))
    /\ UNCHANGED <<native, given, doc, item, compileVars, searchVars, aggVars,
                   heapVars>>

NextConvert == Normalize \/ Renormalize

SpecConvert == InitConvert /\ [][NextConvert]_vars

---------------------------------------------------------------------------
(* The aggregation client applied to bounded calls *)

MaxCalls == 2

AggregationsChoices ==
    << NoneList,
       Some(<<>>),
       Some(<<"total_count">>),
       Some(<<"cmip6_activity_id_frequency">>),
       Some(<<"cmip6_activity_id_frequency", "total_count">>),
       Some(<<"total_count", "cmip6_variable_id_frequency">>),
       Some(<<"cmip6_source_id_frequency", "cmip6_variable_id_frequency">>) >>

CollectionIdChoices == <<NoneStr, Some("cmip6")>>

\* the keyword arguments a call may carry besides those it names
KwargsChoices ==
    << EmptyDict,
       [request |-> "http://testserver/"],
       [request |-> "http://testserver/", collections |-> <<"cmip6">>],
       [request |-> "http://testserver/",
        filter |-> [op |-> "=", args |-> <<[property |-> "collection"], "cmip6">>]],
       [request |-> "http://testserver/", collections |-> <<"cmip6">>,
        filter |-> [op |-> "=", args |-> <<[property |-> "id"], "item-1">>],
        size |-> 5] >>

\* what client.post_search may answer: a response, or a SearchAPIError
PostSearchOutcomes ==
    << Return([total |-> 1234, facet_results |-> <<>>]),
       Return([total |-> 0, facet_results |-> <<>>]),
       Return([total |-> 7,
               facet_results |->
                   <<[name |-> "activity_id",
                      buckets |-> <<[value |-> "CMIP", count |-> 5],
                                    [value |-> "ScenarioMIP", count |-> 2]>>]>>]),
       Raise("SearchAPIError", "Bad Request") >>

\* GET /aggregations and GET /collections/{collection_id}/aggregations
GetAggregations ==
    /\ ncalls < MaxCalls
    /\ \E c \in DOMAIN CollectionIdChoices, k \in DOMAIN KwargsChoices :
         LET out == get_aggregations(classAggs, CollectionIdChoices[c],
                                     KwargsChoices[k])
         IN  /\ call' = [op |-> "get_aggregations", aggregations |-> NoneList,
                         collection_id |-> CollectionIdChoices[c],
                         kwargs |-> KwargsChoices[k]]
             /\ reply' = out.ret
             /\ classAggs' = out.cls
    /\ posted' = <<>>
    /\ replied' = NoOutcome
    /\ ncalls' = ncalls + 1
    /\ UNCHANGED <<compileVars, searchVars, convertVars, heapVars>>

\* GET or POST /aggregate and /collections/{collection_id}/aggregate
Aggregate ==
    /\ ncalls < MaxCalls
    /\ \E a \in DOMAIN AggregationsChoices, c \in DOMAIN CollectionIdChoices,
          k \in DOMAIN KwargsChoices, b \in DOMAIN PostSearchOutcomes :
         LET out == aggregate(AggregationsChoices[a], CollectionIdChoices[c],
                              KwargsChoices[k], PostSearchOutcomes[b])
         IN  /\ call' = [op |-> "aggregate",
                         aggregations |-> AggregationsChoices[a],
                         collection_id |-> CollectionIdChoices[c],
                         kwargs |-> KwargsChoices[k]]
             /\ posted' = out.posted
             /\ replied' = IF Len(out.posted) > 0
                           THEN PostSearchOutcomes[b]
                           ELSE NoOutcome
             /\ reply' = out.ret
    /\ ncalls' = ncalls + 1
    /\ UNCHANGED <<classAggs, compileVars, searchVars, convertVars, heapVars>>

InitAggregate ==
    IdleCompile /\ IdleSearch /\ IdleConvert /\ IdleAggregate /\ IdleHeap

NextAggregate == GetAggregations \/ Aggregate

SpecAggregate == InitAggregate /\ [][NextAggregate]_vars

---------------------------------------------------------------------------
(* Search requests *)

IdsChoices == <<NoneList, Some(<<"item-1", "item-2">>)>>

CollectionsChoices == <<NoneList, Some(<<"cmip6">>)>>

DatetimeChoices == <<NoneStr, Some("2020-01-01T00:00:00Z")>>

BBoxChoices ==
    <<NoneList, Some(<<-10, -20, 10, 20>>), Some(<<-10, -20, 0, 10, 20, 100>>)>>

IntersectsChoices == <<NoneList, Some(Polygon)>>

FilterChoices ==
    << NoneList,
       Some(EmptyDict),
       Some(Node("=", <<Prop("collection"), "cmip6">>)),
       Some(Node("and", <<Node("<=", <<Prop("temperature"), "30">>),
                          Node("<>", <<Prop("status"), "archived">>)>>)),
       Some(Prop("id")),
       Some(Node("like", <<Prop("name"), "%test%">>)),
       Some(Node("a_equals", <<>>)),
       Some(Node("unknown_op", <<>>)),
       Some(Node("not", <<EmptyDict>>)),
       Some(Node("=", <<Prop("id"), "a", "b">>)) >>

LimitChoices == <<NoneInt, Some(3)>>

TokenChoices == <<NoneStr, Some("tok"), Some("")>>

Doc1 ==
    Doc([id |-> "item-1", type |-> "Feature",
         assets |-> PyList(<<Asset("data", "x"), Asset("meta", "y")>>)])

Doc2 ==
    Doc([id |-> "item-2", type |-> "Feature",
         assets |-> PyList(<<[name |-> "data", href |-> "x",
                              alternate |-> PyList(<<Asset("s3", "s3://x")>>)],
                             [href |-> "z"]>>)])

\* a document as the ingest script writes it
DocIngested ==
    Doc(format_item([id |-> "item-3", type |-> "Feature",
                     assets |-> PyList(<<Asset("data", "x")>>)]))

\* what _client.scroll may answer: a response, or a SearchAPIError
BackendOutcomes ==
    << Return([gmeta |-> <<>>, total |-> Some(0), marker |-> NoneStr]),
       Return([gmeta |-> <<Doc1>>, total |-> Some(1), marker |-> NoneStr]),
       Return([gmeta |-> <<Doc1, Doc2>>, total |-> Some(100),
               marker |-> Some("next_page_token")]),
       Return([gmeta |-> <<Doc1, DocIngested, Doc2>>, total |-> Some(3),
               marker |-> NoneStr]),
       Raise("SearchAPIError", "Bad Request") >>

\* post_search, from the request's arrival to the call of execute_search
PostSearchBuild(r) ==
    /\ pc[r] = "idle"
    /\ \E i \in DOMAIN IdsChoices, c \in DOMAIN CollectionsChoices,
          d \in DOMAIN DatetimeChoices, b \in DOMAIN BBoxChoices,
          x \in DOMAIN IntersectsChoices, f \in DOMAIN FilterChoices,
          l \in DOMAIN LimitChoices, t \in DOMAIN TokenChoices :
         LET rq == [handler |-> "post_search",
                    ids |-> IdsChoices[i],
                    collections |-> CollectionsChoices[c],
                    datetime |-> DatetimeChoices[d],
                    bbox |-> BBoxChoices[b],
                    intersects |-> IntersectsChoices[x],
                    filter |-> FilterChoices[f],
                    limit |-> LimitChoices[l],
                    token |-> TokenChoices[t]]
             built == BuildQuery(rq)
         IN  /\ req' = [req EXCEPT ![r] = rq]
             /\ IF built.res.kind = "raise"
                THEN /\ pc' = [pc EXCEPT ![r] = "failed:" \o built.at]
                     /\ outcome' = [outcome EXCEPT ![r] = built.res]
                     /\ UNCHANGED search
                ELSE /\ pc' = [pc EXCEPT ![r] = "built"]
                     /\ search' = [search EXCEPT ![r] = built.res.val]
                     /\ UNCHANGED outcome
    /\ UNCHANGED <<sent, answered, response, found, compileVars, convertVars, aggVars, heapVars>>

\* the queries a caller of execute_search hands it directly
DirectQueries ==
    << make_search,
       [filters |-> <<>>],
       [filters |-> <<[field_name |-> "collection", values |-> <<"cmip6">>,
                       type |-> "match_any"]>>],
       [q |-> "*", limit |-> 5] >>

\* a caller other than post_search calls execute_search with its own query
CallExecuteSearch(r) ==
    /\ pc[r] = "idle"
    /\ \E q \in DOMAIN DirectQueries, l \in DOMAIN LimitChoices,
          t \in DOMAIN TokenChoices :
         /\ req' = [req EXCEPT ![r] =
                       [NoRequest EXCEPT !.handler = "execute_search",
                                         !.limit = LimitChoices[l],
                                         !.token = TokenChoices[t]]]
         /\ search' = [search EXCEPT ![r] = DirectQueries[q]]
    /\ pc' = [pc EXCEPT ![r] = "built"]
    /\ UNCHANGED <<sent, answered, response, found, outcome, compileVars, convertVars, aggVars, heapVars>>

\* execute_search: the query is completed and handed to the backend, which
\* answers with one of "outcomes" and whose documents are normalized
ExecuteSearchAnswered(r, outcomes) ==
    /\ pc[r] = "built"
    /\ LET query == PrepareQuery(search[r], LimitOf(req[r]), req[r].token) IN
       /\ search' = [search EXCEPT ![r] = query]
       /\ sent' = [sent EXCEPT ![r] = Append(@, query)]
       /\ \E k \in DOMAIN outcomes :
            LET scrolled == outcomes[k]
                back == IF scrolled.kind = "raise"
                        THEN HandleSearchAPIError(scrolled)
                        ELSE scrolled
            IN
            /\ answered' = [answered EXCEPT ![r] = scrolled]
            /\ IF back.kind = "raise"
               THEN /\ pc' = [pc EXCEPT ![r] = "failed:backend"]
                    /\ outcome' = [outcome EXCEPT ![r] = back]
                    /\ UNCHANGED <<response, found>>
               ELSE LET items == NormalizeAll(back.val["gmeta"]) IN
                    /\ response' =
                         [response EXCEPT ![r] =
                             [back.val EXCEPT !["gmeta"] = GmetaAfter(@)]]
                    /\ IF items.kind = "raise"
                       THEN /\ pc' = [pc EXCEPT ![r] = "failed:normalize"]
                            /\ outcome' = [outcome EXCEPT ![r] = items]
                            /\ UNCHANGED found
                       ELSE /\ pc' = [pc EXCEPT ![r] = "executed"]
                            /\ found' =
                                 [found EXCEPT ![r] =
                                     Return([items |-> items.val,
                                             total |-> back.val["total"],
                                             next_marker |-> back.val["marker"]])]
                            /\ UNCHANGED outcome
    /\ UNCHANGED <<req, compileVars, convertVars, aggVars, heapVars>>

ExecuteSearch(r) == ExecuteSearchAnswered(r, BackendOutcomes)

\* post_search after execute_search: the page handed back
PostSearchFinish(r) ==
    /\ pc[r] = "executed"
    /\ req[r].handler = "post_search"
    /\ pc' = [pc EXCEPT ![r] = "done"]
    /\ outcome' =
         [outcome EXCEPT ![r] =
             Return(ItemCollection(found[r].val.items, found[r].val.total,
                                   found[r].val.next_marker))]
    /\ UNCHANGED <<req, search, sent, answered, response, found, compileVars,
                   convertVars, aggVars, heapVars>>

---------------------------------------------------------------------------
(* Item listings of a collection *)

CollectionIds == <<"cmip6", "">>

QueryTokenChoices == <<NoneStr, Some("from-query")>>

RequestUrls ==
    << Url("http", "localhost:8000", "/collections/cmip6/items"),
       Url("https", "stac.example.org", "/collections/cmip6/items") >>

\* a backend document whose content carries links of its own
DocLinked ==
    Doc([id |-> "item-4", type |-> "Feature",
         assets |-> PyList(<<Asset("data", "x")>>),
         links |-> << [rel |-> "self",
                       href |-> Url("https", "data.example.org",
                                    "/collections/cmip6/items/item-4")],
                      [rel |-> "parent"] >>])

\* what _client.scroll may answer a listing
ItemBackendOutcomes ==
    << Return([gmeta |-> <<>>, total |-> Some(0), marker |-> NoneStr]),
       Return([gmeta |-> <<>>, total |-> Some(0), marker |-> Some("next_page_token")]),
       Return([gmeta |-> <<DocLinked>>, total |-> Some(100),
               marker |-> Some("next_page_token")]),
       Return([gmeta |-> <<Doc1, DocLinked>>, total |-> Some(2), marker |-> NoneStr]),
       Return([gmeta |-> <<DocLinked, Doc1>>, total |-> Some(100),
               marker |-> Some("next_page_token")]),
       Raise("SearchAPIError", "Bad Request") >>

\* item_collection, from the request's arrival to the call of execute_search
ItemCollectionBuild(r) ==
    /\ pc[r] = "idle"
    /\ \E c \in DOMAIN CollectionIds, l \in DOMAIN LimitChoices,
          t \in DOMAIN TokenChoices, q \in DOMAIN QueryTokenChoices,
          u \in DOMAIN RequestUrls :
         /\ req' = [req EXCEPT ![r] =
                       [handler |-> "item_collection",
                        collection_id |-> CollectionIds[c],
                        limit |-> LimitChoices[l],
                        token |-> QueryParamToken(QueryTokenChoices[q], TokenChoices[t]),
                        url |-> RequestUrls[u]]]
         /\ search' = [search EXCEPT ![r] = BuildItemsQuery(CollectionIds[c])]
    /\ pc' = [pc EXCEPT ![r] = "built"]
    /\ UNCHANGED <<sent, answered, response, found, outcome, compileVars,
                   convertVars, aggVars, heapVars>>

\* item_collection awaits execute_search
ItemCollectionExecute(r) == ExecuteSearchAnswered(r, ItemBackendOutcomes)

\* item_collection after execute_search: the page handed back
ItemCollectionFinish(r) ==
    /\ pc[r] = "executed"
    /\ req[r].handler = "item_collection"
    /\ pc' = [pc EXCEPT ![r] = "done"]
    /\ outcome' =
         [outcome EXCEPT ![r] =
             Return(ItemCollectionOfItems(found[r].val.items, found[r].val.total,
                                          found[r].val.next_marker, req[r].url))]
    /\ UNCHANGED <<req, search, sent, answered, response, found, compileVars,
                   convertVars, aggVars, heapVars>>

NextItems ==
    \E r \in Requests :
        \/ ItemCollectionBuild(r)
        \/ ItemCollectionExecute(r)
        \/ ItemCollectionFinish(r)

---------------------------------------------------------------------------
(* Concurrent search requests *)

MaxClients == 2

Clients == 1..MaxClients

\* a variant in which make_search hands out one and the same object
NewObject_Singleton(objects) == 1

\* make_search() creates an object of its own at every call
NewObject(objects) == Len(objects) + 1

\* the requests the concurrent clients send
ConcurrentRequests ==
    << [NoRequest EXCEPT !.handler = "post_search",
                         !.ids = Some(<<"item-1", "item-2">>),
                         !.limit = Some(3), !.token = Some("tok")],
       [NoRequest EXCEPT !.handler = "post_search",
                         !.collections = Some(<<"cmip6">>),
                         !.bbox = Some(<<-10, -20, 0, 10, 20, 100>>)],
       [NoRequest EXCEPT !.handler = "post_search",
                         !.filter = Some(Node("<=", <<Prop("temperature"), "30">>)),
                         !.token = Some("other")],
       [NoRequest EXCEPT !.handler = "post_search", !.limit = Some(3)],
       [NoRequest EXCEPT !.handler = "post_search",
                         !.ids = Some(<<"item-9">>),
                         !.filter = Some(Node("like", <<Prop("name"), "%a%">>))] >>

\* what _client.scroll answers a concurrent client
ConcurrentOutcomes ==
    << BackendOutcomes[2], BackendOutcomes[Len(BackendOutcomes)] >>

InitConcurrent ==
    /\ IdleCompile
    /\ IdleConvert
    /\ IdleAggregate
    /\ pc = [r \in Clients |-> "idle"]
    /\ req = [r \in Clients |-> NoRequest]
    /\ search = [r \in Clients |-> make_search]
    /\ sent = [r \in Clients |-> <<>>]
    /\ answered = [r \in Clients |-> NoOutcome]
    /\ response = [r \in Clients |-> NoResponse]
    /\ found = [r \in Clients |-> NoOutcome]
    /\ outcome = [r \in Clients |-> NoOutcome]
    /\ heap = <<>>
    /\ local = [r \in Clients |-> 0]

\* post_search begins: search = self.database.make_search()
ConcurrentStart(r) ==
    /\ pc[r] = "idle"
    /\ \E i \in DOMAIN ConcurrentRequests :
         req' = [req EXCEPT ![r] = ConcurrentRequests[i]]
    /\ LET object == NewObject(heap) IN
       /\ heap' = IF object > Len(heap) THEN Append(heap, make_search) ELSE heap
       /\ local' = [local EXCEPT ![r] = object]
    /\ pc' = [pc EXCEPT ![r] = "started"]
    /\ UNCHANGED <<search, sent, answered, response, found, outcome,
                   compileVars, convertVars, aggVars>>

\* post_search applies its predicate sources to the object "search" names
ConcurrentBuild(r) ==
    /\ pc[r] = "started"
    /\ LET built == BuildQueryFrom(heap[local[r]], req[r]) IN
       IF built.res.kind = "raise"
       THEN /\ pc' = [pc EXCEPT ![r] = "failed:" \o built.at]
            /\ outcome' = [outcome EXCEPT ![r] = built.res]
            /\ UNCHANGED <<heap, search>>
       ELSE /\ pc' = [pc EXCEPT ![r] = "built"]
            /\ heap' = [heap EXCEPT ![local[r]] = built.res.val]
            /\ search' = [search EXCEPT ![r] = built.res.val]
            /\ UNCHANGED outcome
    /\ UNCHANGED <<req, sent, answered, response, found, local,
                   compileVars, convertVars, aggVars>>

\* execute_search on the object "search" names
ConcurrentExecute(r) ==
    /\ pc[r] = "built"
    /\ LET query == PrepareQuery(heap[local[r]], LimitOf(req[r]), req[r].token) IN
       /\ heap' = [heap EXCEPT ![local[r]] = query]
       /\ search' = [search EXCEPT ![r] = query]
       /\ sent' = [sent EXCEPT ![r] = Append(@, query)]
    /\ \E k \in DOMAIN ConcurrentOutcomes :
         LET back == ConcurrentOutcomes[k] IN
         /\ answered' = [answered EXCEPT ![r] = back]
         /\ IF back.kind = "raise"
            THEN /\ pc' = [pc EXCEPT ![r] = "failed:backend"]
                 /\ outcome' = [outcome EXCEPT ![r] = HandleSearchAPIError(back)]
                 /\ UNCHANGED <<response, found>>
            ELSE /\ pc' = [pc EXCEPT ![r] = "executed"]
                 /\ response' =
                      [response EXCEPT ![r] =
                          [back.val EXCEPT !["gmeta"] = GmetaAfter(@)]]
                 /\ found' =
                      [found EXCEPT ![r] =
                          Return([items |-> NormalizeAll(back.val["gmeta"]).val,
                                  total |-> back.val["total"],
                                  next_marker |-> back.val["marker"]])]
                 /\ UNCHANGED outcome
    /\ UNCHANGED <<req, local, compileVars, convertVars, aggVars>>

NextConcurrent ==
    \E r \in Clients :
        \/ ConcurrentStart(r)
        \/ ConcurrentBuild(r)
        \/ ConcurrentExecute(r)
        \/ PostSearchFinish(r)

SpecConcurrent == InitConcurrent /\ [][NextConcurrent]_vars

Init == IdleCompile /\ IdleSearch /\ IdleConvert /\ IdleAggregate /\ IdleHeap

Next ==
    \E r \in Requests :
        \/ PostSearchBuild(r)
        \/ CallExecuteSearch(r)
        \/ ExecuteSearch(r)
        \/ PostSearchFinish(r)

Spec == Init /\ [][Next]_vars

SpecItems == Init /\ [][NextItems]_vars


---------------------------------------------------------------------------
(* Properties of the compiler *)

IsOp(n, op) == Has(n, "op") /\ n["op"] = op

\* node is not(not(X)), each "not" with exactly one argument
IsNotNot ==
    /\ IsOp(node, "not") /\ Has(node, "args") /\ Len(node["args"]) = 1
    /\ LET m == node["args"][1]
       IN  IsOp(m, "not") /\ Has(m, "args") /\ Len(m["args"]) = 1

NotNotArg == node["args"][1]["args"][1]

\* C1: double-negation law.  Whenever X compiles without raising,
\* cql_to_filter(not(not(X))) returns the filter cql_to_filter(X) returns.
\* (Stated as the claim states it; the compiler violates it for a node X
\* without an "op" key, whose filter {} has no "type".)
DoubleNegationLaw ==
    (Compiled /\ IsNotNot /\ cql_to_filter(NotNotArg).kind = "return")
        => result = cql_to_filter(NotNotArg)

\* the operator arities of the filter expression data model
ArityOf(op) ==
    CASE op \in {"not", "isNull"} -> 1
      [] op \in {"=", "<>", "<=", ">=", "in", "s_intersects", "s_within"} -> 2
      [] OTHER -> 0

HasArity(op) ==
    op \in {"not", "isNull", "=", "<>", "<=", ">=", "in",
            "s_intersects", "s_within"}

RECURSIVE Malformed(_)
\* a node somewhere in the tree n has the wrong number of arguments, or an
\* argument of a not/and/or has no operator
Malformed(n) ==
    /\ Has(n, "op")
    /\ \/ HasArity(n["op"])
          /\ (~Has(n, "args") \/ Len(n["args"]) # ArityOf(n["op"]))
       \/ /\ n["op"] \in {"not", "and", "or"}
          /\ Has(n, "args")
          /\ \E i \in 1..Len(n["args"]) :
                 ~Has(n["args"][i], "op") \/ Malformed(n["args"][i])

\* C4: every malformed node is rejected: compiling a tree that holds a node
\* of the wrong arity, or an operator-less argument, raises.
\* (Stated as the claim states it; the compiler ignores surplus arguments
\* and compiles an operator-less argument of and/or to an empty entry.)
MalformedNodesRejected ==
    (Compiled /\ Malformed(node)) => result.kind = "raise"

NotImplementedByTable ==
    {"<", ">", "like", "between", "s_contains", "s_disjoint",
     "t_after", "t_before", "t_disjoint", "t_equals", "t_intersects",
     "t_contains", "t_during", "t_finishedby", "t_finishes", "t_meets",
     "t_metby", "t_overlappedby", "t_overlaps", "t_startedby", "t_starts"}

UnsupportedByTable ==
    {"s_crosses", "s_equals", "s_overlaps", "s_touches",
     "a_equals", "a_contains", "a_contained_by", "a_overlaps",
     "casei", "accenti", "+", "-", "*", "/", "%", "div", "^"}

TranslatedByTable ==
    {"not", "and", "or", "=", "<>", "<=", ">=", "isNull", "in",
     "s_intersects", "s_within"}

KnownOpsByTable ==
    TranslatedByTable \cup NotImplementedByTable \cup UnsupportedByTable

\* C5: a rejected operator at the root fails with the kind the table gives
\* it, NotImplementedError or ValueError, whatever its arguments.
RejectedOperatorKinds ==
    (Compiled /\ Has(node, "op")) =>
        /\ node["op"] \in NotImplementedByTable =>
             (result.kind = "raise" /\ result.exc = "NotImplementedError")
        /\ node["op"] \in UnsupportedByTable =>
             (result.kind = "raise" /\ result.exc = "ValueError")

RejectedOperatorKindsWitness ==
    /\ Compiled
    /\ IsOp(node, "s_touches") /\ Has(node, "args") /\ Len(node["args"]) = 3
    /\ result.kind = "raise" /\ result.exc = "ValueError"

NotImplementedSample == cql_to_filter(Node("like", <<>>))

UnsupportedSample == cql_to_filter(Node("a_equals", <<>>))

\* C6 as claimed: an operator outside the known set fails with a kind that
\* is neither the "not implemented" kind nor the "unsupported by design" kind.
ThreeFailureKindsDistinct ==
    (Compiled /\ Has(node, "op") /\ node["op"] \notin KnownOpsByTable) =>
        /\ result.kind = "raise"
        /\ result.exc # NotImplementedSample.exc
        /\ result.exc # UnsupportedSample.exc

\* C6 as amended: there are two failure kinds.  An operator outside the
\* known set fails with the kind of the not-yet-implemented operators
\* (NotImplementedError) and differs from them by its message only; that
\* kind is distinct from the "unsupported by design" kind (ValueError).
UnrecognizedSharesNotImplementedKind ==
    (Compiled /\ Has(node, "op") /\ node["op"] \notin KnownOpsByTable) =>
        /\ result = Raise("NotImplementedError",
                          "Unrecgonized operator: " \o node["op"])
        /\ result.exc = NotImplementedSample.exc
        /\ result.msg # NotImplementedSample.msg
        /\ result.exc # UnsupportedSample.exc

UnrecognizedOperatorWitness ==
    /\ Compiled
    /\ IsOp(node, "unknown_op") /\ Has(node, "args")
    /\ result.kind = "raise"

\* C7 as claimed: a root node whose operator is missing or empty compiles
\* to the empty filter and raises nothing.
EmptyOrMissingOperatorIsNoOp ==
    (Compiled /\ (~Has(node, "op") \/ node["op"] = "")) =>
        result = Return(EmptyDict)

\* C7 as amended: a root node without an "op" key compiles to the empty
\* filter; a root node whose "op" is present but empty is an unrecognized
\* operator and raises.
MissingOperatorIsNoOp ==
    Compiled =>
        /\ ~Has(node, "op") => result = Return(EmptyDict)
        /\ IsOp(node, "") =>
             result = Raise("NotImplementedError", "Unrecgonized operator: ")

MissingOperatorWitness ==
    Compiled /\ node = NativeNot /\ result.kind = "return"

\* the field name the table prescribes for property p
TranslatedField(p) ==
    IF p \in {"id", "collection", "geometry"} THEN p ELSE "properties." \o p

\* C8: "<=", ">=" and isNull on a property p emit range / not(exists) on
\* the translated field name, which is p for id, collection and geometry and
\* "properties." + p otherwise; translating twice differs from translating
\* once outside the pass-through set.
FieldTranslatedOperators ==
    (Compiled /\ Has(node, "op") /\ Has(node, "args")
       /\ node["op"] \in {"<=", ">=", "isNull"}
       /\ Len(node["args"]) = ArityOf(node["op"])
       /\ Has(node["args"][1], "property")) =>
        LET p == node["args"][1]["property"]
            F == TranslatedField(p)
        IN  /\ node["op"] = "<=" =>
                 result = Return([type |-> "range", field_name |-> F,
                                  values |-> <<[from |-> "*",
                                                to |-> node["args"][2]]>>])
            /\ node["op"] = ">=" =>
                 result = Return([type |-> "range", field_name |-> F,
                                  values |-> <<[from |-> node["args"][2],
                                                to |-> "*"]>>])
            /\ node["op"] = "isNull" =>
                 result = Return([type |-> "not",
                                  filter |-> [type |-> "exists",
                                              field_name |-> F]])
            /\ cql_translate_fieldname(p) = F
            /\ p \notin {"id", "collection", "geometry"} =>
                 cql_translate_fieldname(cql_translate_fieldname(p)) # F

FieldTranslatedWitness ==
    /\ Compiled
    /\ node = Node("<=", <<Prop("temperature"), "30">>)
    /\ result.kind = "return"
    /\ result.val["field_name"] = "properties.temperature"

\* C9: "=", "<>", "in", s_intersects and s_within use the property name
\* verbatim: match_any on p with [v]; not(match_any); match_any on p with
\* the list unchanged; geo_shape with the operator's suffix and the geometry.
LeafOperatorsVerbatim ==
    (Compiled /\ Has(node, "op") /\ Has(node, "args")
       /\ node["op"] \in {"=", "<>", "in", "s_intersects", "s_within"}
       /\ Len(node["args"]) = 2
       /\ Has(node["args"][1], "property")) =>
        LET p == node["args"][1]["property"]
            v == node["args"][2]
            m == [type |-> "match_any", field_name |-> p, values |-> <<v>>]
        IN  /\ node["op"] = "=" => result = Return(m)
            /\ node["op"] = "<>" =>
                 result = Return([type |-> "not", filter |-> m])
            /\ node["op"] = "in" =>
                 result = Return([type |-> "match_any", field_name |-> p,
                                  values |-> v])
            /\ node["op"] = "s_intersects" =>
                 result = Return([type |-> "geo_shape",
                                  relation |-> "intersects", shape |-> v])
            /\ node["op"] = "s_within" =>
                 result = Return([type |-> "geo_shape",
                                  relation |-> "within", shape |-> v])

LeafOperatorsWitness ==
    /\ Compiled
    /\ IsOp(node, "in") /\ Has(node, "args") /\ Len(node["args"]) = 2
    /\ result.kind = "return"
    /\ result.val["field_name"] = "status"
    /\ Len(result.val["values"]) = 3

\* C10: an and/or node whose n arguments all compile yields a node of the
\* same type with exactly n filters, the i-th being the compiled i-th
\* argument.
AndOrPreserveArguments ==
    (Compiled /\ Has(node, "op") /\ node["op"] \in {"and", "or"}
       /\ Has(node, "args")
       /\ \A i \in 1..Len(node["args"]) :
              cql_to_filter(node["args"][i]).kind = "return") =>
        /\ result.kind = "return"
        /\ DOMAIN result.val = {"type", "filters"}
        /\ result.val["type"] = node["op"]
        /\ Len(result.val["filters"]) = Len(node["args"])
        /\ \A i \in 1..Len(node["args"]) :
               result.val["filters"][i] = cql_to_filter(node["args"][i]).val

AndOrWitness ==
    /\ Compiled
    /\ IsOp(node, "or") /\ Has(node, "args") /\ Len(node["args"]) = 2
    /\ IsOp(node["args"][1], "<>") /\ IsOp(node["args"][2], "not")
    /\ result.kind = "return"
    /\ Len(result.val["filters"]) = 2

---------------------------------------------------------------------------
(* Properties of the query builder and the search executor *)

\* C2: empty-filter defaulting.  Every query handed to the backend scroll
\* call whose filter list is empty or absent carries the match-all term
\* q = "*"; it is never sent with the term unset.
EmptyFilterDefaulting ==
    \A r \in Requests : \A i \in 1..Len(sent[r]) :
        Len(Get(sent[r][i], "filters", <<>>)) = 0 =>
            (Has(sent[r][i], "q") /\ sent[r][i]["q"] = "*")

EmptyFilterDefaultingWitness ==
    \E r \in Requests :
        /\ req[r].handler = "post_search"
        /\ Len(sent[r]) = 1
        /\ ~Has(sent[r][1], "filters")
        /\ sent[r][1]["q"] = "*"

\* the request reached the compilation of its CQL2 filter
ReachedFilter(r) ==
    pc[r] \notin {"idle", "failed:datetime", "failed:bbox", "failed:intersects"}

\* C3: when compiling the request's CQL2 filter raises inside post_search,
\* the request ends with HTTP 400 whose detail is "Error with cql2_json
\* filter: " followed by the exception's message, and no query is handed to
\* the backend for that request.
FilterErrorIsBadRequest ==
    \A r \in Requests :
        (/\ req[r].handler = "post_search"
         /\ ReachedFilter(r)
         /\ Truthy(req[r].filter)
         /\ cql_to_filter(req[r].filter.val).kind = "raise") =>
            /\ pc[r] = "failed:filter"
            /\ outcome[r] =
                 HTTPException(400, "Error with cql2_json filter: "
                                      \o cql_to_filter(req[r].filter.val).msg)
            /\ sent[r] = <<>>

FilterErrorWitness ==
    \E r \in Requests :
        /\ pc[r] = "failed:filter"
        /\ IsOp(req[r].filter.val, "like")
        /\ outcome[r].status_code = 400
        /\ outcome[r].detail =
             "Error with cql2_json filter: 'like' filter is not supported yet"
        /\ sent[r] = <<>>

---------------------------------------------------------------------------
(* Properties of the search executor *)

Executed(r) == found[r] # NoOutcome

\* equality of two "alternate" values, of two asset records, of two "assets"
\* values and of two documents, comparing values of one Python type only
SameAlternate(x, y) == x.py = y.py /\ x.v = y.v

SameAsset(a, b) ==
    /\ DOMAIN a = DOMAIN b
    /\ \A k \in (DOMAIN a) \ {"alternate"} : a[k] = b[k]
    /\ Has(a, "alternate") => SameAlternate(a["alternate"], b["alternate"])

SameAssets(x, y) ==
    /\ x.py = y.py
    /\ IF x.py = "list"
       THEN /\ Len(x.v) = Len(y.v)
            /\ \A i \in 1..Len(x.v) : SameAsset(x.v[i], y.v[i])
       ELSE x.v = y.v

SameDocument(d, g) ==
    LET c == d["entries"][1]["content"]
        e == g["entries"][1]["content"]
    IN  /\ DOMAIN c = DOMAIN e
        /\ \A k \in (DOMAIN c) \ {"assets"} : c[k] = e[k]
        /\ Has(c, "assets") => SameAssets(c["assets"], e["assets"])

SentQueryCarriesLimitAndSuppliedToken ==
    \A r \in Requests : \A i \in 1..Len(sent[r]) :
        /\ Has(sent[r][i], "limit") /\ sent[r][i]["limit"] = LimitOf(req[r])
        /\ Has(sent[r][i], "marker") <=> req[r].token.given
        /\ Has(sent[r][i], "marker") => sent[r][i]["marker"] = req[r].token.val

\* C12 (amended): every query sent to the backend carries the caller's
\* limit, and carries a marker exactly when the caller's token is a
\* non-empty string, the marker being that token; with no token or with the
\* empty string as token the query has no marker.
SentQueryCarriesLimitAndNonEmptyToken ==
    \A r \in Requests : \A i \in 1..Len(sent[r]) :
        /\ Has(sent[r][i], "limit") /\ sent[r][i]["limit"] = LimitOf(req[r])
        /\ Has(sent[r][i], "marker")
             <=> (req[r].token.given /\ req[r].token.val # "")
        /\ Has(sent[r][i], "marker") => sent[r][i]["marker"] = req[r].token.val

SentQueryWitness ==
    \E r \in Requests :
        /\ Len(sent[r]) = 1
        /\ req[r].token.given /\ req[r].token.val = ""
        /\ req[r].limit.given
        /\ ~Has(sent[r][1], "marker")

\* C13: when the backend reports an error, execute_search has called the
\* backend exactly once, the request ends with that very error, and no
\* result page is returned for it.
BackendErrorPropagates ==
    \A r \in Requests :
        answered[r].kind = "raise" =>
            /\ Len(sent[r]) = 1
            /\ pc[r] = "failed:backend"
            /\ outcome[r] = answered[r]
            /\ ~Executed(r)

BackendErrorWitness ==
    \E r \in Requests :
        /\ answered[r].kind = "raise"
        /\ req[r].handler = "post_search"
        /\ outcome[r].exc = "SearchAPIError"

---------------------------------------------------------------------------
(* Properties of the document normalizer *)

Normalized == item # Pending

GivenContent == given["entries"][1]["content"]

\* the document was handed over with its assets as a native list
GivenAsList ==
    Has(GivenContent, "assets") /\ GivenContent["assets"].py = "list"

\* the document was handed over with its assets as JSON text
GivenAsText ==
    Has(GivenContent, "assets") /\ GivenContent["assets"].py = "str"

AllNamed == \A i \in 1..Len(native) : Has(native[i], "name")

DistinctNames ==
    \A i, j \in 1..Len(native) :
        (native[i]["name"] = native[j]["name"]) => i = j

\* rec without its "name" field, not looking at the fields in skip
SameWithoutName(out, rec, skip) ==
    /\ DOMAIN out = (DOMAIN rec) \ {"name"}
    /\ \A k \in (DOMAIN out) \ skip : out[k] = rec[k]

\* map holds every named record of list under its name, without the name
PromotedByName(map, list) ==
    /\ DOMAIN map = {list[i]["name"] : i \in {j \in 1..Len(list) : Has(list[j], "name")}}
    /\ \A n \in DOMAIN map :
           \E i \in 1..Len(list) :
               /\ Has(list[i], "name") /\ list[i]["name"] = n
               /\ SameWithoutName(map[n], list[i], {})

\* C14: for a document whose assets is a list of records with pairwise
\* distinct names, the result's assets is a map with exactly one key per
\* asset name, each mapped to the asset's record without "name"; an asset's
\* "alternate" list becomes a map from each alternate's name to the alternate
\* without "name"; every other top-level field of the content is unchanged.
AssetsPromotedByName ==
    (Normalized /\ GivenAsList /\ AllNamed /\ DistinctNames) =>
        /\ item.kind = "return"
        /\ DOMAIN item.val = DOMAIN GivenContent
        /\ \A k \in (DOMAIN GivenContent) \ {"assets"} : item.val[k] = GivenContent[k]
        /\ item.val["assets"].py = "dict"
        /\ LET out == item.val["assets"].v IN
           /\ DOMAIN out = {native[i]["name"] : i \in 1..Len(native)}
           /\ \A i \in 1..Len(native) :
                LET asset == native[i]
                    entry == out[asset["name"]]
                IN  /\ SameWithoutName(entry, asset, {"alternate"})
                    /\ Has(asset, "alternate") =>
                           /\ entry["alternate"].py = "dict"
                           /\ PromotedByName(entry["alternate"].v,
                                             asset["alternate"].v)

AssetsPromotedByNameWitness ==
    /\ Normalized /\ GivenAsList /\ AllNamed /\ DistinctNames
    /\ Len(native) = 2
    /\ \E i \in 1..2 : Has(native[i], "alternate") /\ Len(native[i]["alternate"].v) = 2
    /\ item.kind = "return"

\* C15 (as stated): the call leaves the document it was given as it was.
\* (The normalizer violates it: it removes "name" from the asset records of
\* the document's own list and replaces their "alternate" lists.)
InputDocumentNotMutated ==
    Normalized => SameDocument(doc, given)

\* C16: a nameless asset does not make the call fail; the result's assets
\* map has exactly the names of the named assets as keys, so the nameless
\* asset is absent and every named asset is present.
NamelessAssetDropped ==
    (Normalized /\ GivenAsList /\ ~AllNamed) =>
        /\ item.kind = "return"
        /\ item.val["assets"].py = "dict"
        /\ \A i \in 1..Len(native) :
               Has(native[i], "name") =>
                   native[i]["name"] \in DOMAIN item.val["assets"].v
        /\ Cardinality(DOMAIN item.val["assets"].v)
             = Cardinality({native[i]["name"] :
                              i \in {j \in 1..Len(native) : Has(native[j], "name")}})

NamelessAssetDroppedWitness ==
    /\ Normalized /\ GivenAsList
    /\ Len(native) = 2
    /\ ~Has(native[1], "name") /\ Has(native[2], "name")
    /\ item.kind = "return"
    /\ DOMAIN item.val["assets"].v = {native[2]["name"]}

\* C17 (as stated): for a document whose assets is the JSON text of an asset
\* list, the call yields what it yields for the document holding that list
\* natively.  (The normalizer violates it: it never parses the text and
\* raises on its first character.)
EncodedAssetsParsed ==
    (Normalized /\ GivenAsText) =>
        item = search_doc_to_stac_item(
                   Doc(Put(GivenContent, "assets", PyList(native))))

---------------------------------------------------------------------------
(* Properties of the query builder *)

\* post_search built its query and called execute_search
ReachedBuilt(r) ==
    /\ req[r].handler = "post_search"
    /\ pc[r] \in {"built", "executed", "done", "failed:backend", "failed:normalize"}

\* post_search came to its intersects step
ReachedIntersects(r) ==
    /\ req[r].handler = "post_search"
    /\ pc[r] \notin {"idle", "failed:datetime", "failed:bbox"}

\* C19 (as stated): a request with an intersects geometry is accepted; the
\* intersects step raises nothing and the query built is the one built for
\* the same request without the geometry.  (post_search violates it: it
\* passes the geometry under a keyword the builder's step does not have.)
IntersectsAcceptedAsNoOp ==
    \A r \in Requests :
        (ReachedIntersects(r) /\ Truthy(req[r].intersects)) =>
            /\ pc[r] # "failed:intersects"
            /\ ReachedBuilt(r) =>
                 Get(search[r], "filters", <<>>)
                   = Get(BuildQuery([req[r] EXCEPT !.intersects = NoneList]).res.val,
                         "filters", <<>>)

GeoBoundingBoxes(query) ==
    SelectSeq(Get(query, "filters", <<>>),
              LAMBDA f : Has(f, "type") /\ f["type"] = "geo_bounding_box")

\* C20: for a request bbox [w,s,e,n] or [w,s,minz,e,n,maxz] the query built
\* holds exactly one geo_bounding_box filter, on field "geometry", with
\* top_left = {lat: n, lon: w} and bottom_right = {lat: s, lon: e}; minz and
\* maxz appear nowhere in it.
BBoxFilterFromHorizontalCorners ==
    \A r \in Requests :
        (ReachedBuilt(r) /\ Truthy(req[r].bbox)
         /\ Len(req[r].bbox.val) \in {4, 6}) =>
            LET b == req[r].bbox.val
                six == Len(b) = 6
                w == b[1]
                s == b[2]
                e == IF six THEN b[4] ELSE b[3]
                n == IF six THEN b[5] ELSE b[4]
            IN  GeoBoundingBoxes(search[r])
                  = << [type |-> "geo_bounding_box",
                        field_name |-> "geometry",
                        top_left |-> [lat |-> n, lon |-> w],
                        bottom_right |-> [lat |-> s, lon |-> e]] >>

BBoxFilterWitness ==
    \E r \in Requests :
        /\ ReachedBuilt(r)
        /\ Truthy(req[r].bbox) /\ Len(req[r].bbox.val) = 6
        /\ Len(Get(search[r], "filters", <<>>)) = 4
        /\ Len(GeoBoundingBoxes(search[r])) = 1

---------------------------------------------------------------------------
(* Properties of the aggregation client *)

Aggregating == call.op = "aggregate"

RequestedNames == call.aggregations.val

RequestsTotalCount ==
    /\ call.aggregations.given
    /\ \E i \in 1..Len(RequestedNames) : RequestedNames[i] = "total_count"

\* both a collection id and a collection list were supplied
BothCollectionScopes ==
    call.collection_id.given /\ Has(call.kwargs, "collections")

NoNamesRequested == call.aggregations.given /\ Len(RequestedNames) = 0

\* C21 (as stated): with both a collection id and a collection list, or with
\* an empty list of names, aggregate raises an HTTP 400 error and calls the
\* backend not at all.  (aggregate violates it: it validates nothing.)
AggregateValidatesFirst ==
    (Aggregating /\ (BothCollectionScopes \/ NoNamesRequested)) =>
        /\ reply.kind = "raise"
        /\ Has(reply, "status_code") /\ reply.status_code = 400
        /\ Len(posted) = 0

\* C22: when "total_count" is among the requested names, at whatever
\* position, aggregate calls the backend exactly once, and if the backend
\* answers it returns exactly one aggregation, total_count of type integer
\* with the total of that answer; no other name contributes anything.
TotalCountShortCircuits ==
    (Aggregating /\ RequestsTotalCount) =>
        /\ Len(posted) = 1
        /\ replied.kind \in {"return", "raise"}
        /\ replied.kind = "return" =>
             /\ reply.kind = "return"
             /\ reply.val.aggregations
                  = <<[name |-> "total_count", data_type |-> "integer",
                       value |-> replied.val["total"]]>>

TotalCountShortCircuitsWitness ==
    /\ Aggregating
    /\ call.aggregations.given
    /\ Len(RequestedNames) = 2 /\ RequestedNames[2] = "total_count"
    /\ Len(posted) = 1
    /\ replied.kind = "return" /\ replied.val["total"] = 1234
    /\ reply.kind = "return"

\* the filters of the query handed to the backend
PostedFilters == Get(posted[1], "filters", <<>>)

HasCollectionFilter(ids) ==
    \E i \in 1..Len(PostedFilters) :
        /\ Has(PostedFilters[i], "field_name")
        /\ PostedFilters[i]["field_name"] = "collection"
        /\ PostedFilters[i]["values"] = ids

\* C23 (as stated): the query sent for total_count matches everything, asks
\* for no results, and carries the filters of the request's collection scope
\* and CQL2 filter.  (aggregate violates it: the query is {"q": "*"} alone.)
TotalCountQueryKeepsFilters ==
    (Aggregating /\ RequestsTotalCount /\ Len(posted) = 1) =>
        /\ Has(posted[1], "q") /\ posted[1]["q"] = "*"
        /\ Has(posted[1], "limit") /\ posted[1]["limit"] = 0
        /\ call.collection_id.given => HasCollectionFilter(<<call.collection_id.val>>)
        /\ Has(call.kwargs, "collections") =>
               HasCollectionFilter(call.kwargs["collections"])
        /\ Has(call.kwargs, "filter") =>
               \E i \in 1..Len(PostedFilters) :
                   Return(PostedFilters[i]) = cql_to_filter(call.kwargs["filter"])

\* C24 (as stated): for requested names other than total_count, aggregate
\* calls the backend once with one terms facet per name and returns one
\* frequency distribution per name.  (aggregate violates it: such names are
\* skipped, nothing is sent and the result holds no aggregation.)
FacetPerRequestedName ==
    (Aggregating /\ call.aggregations.given /\ Len(RequestedNames) > 0
     /\ ~RequestsTotalCount) =>
        /\ Len(posted) = 1
        /\ Has(posted[1], "facets")
        /\ Len(posted[1]["facets"]) = Len(RequestedNames)
        /\ reply.kind = "return" =>
               /\ Len(reply.val.aggregations) = Len(RequestedNames)
               /\ \A i \in 1..Len(RequestedNames) :
                      /\ reply.val.aggregations[i].name = RequestedNames[i]
                      /\ reply.val.aggregations[i].data_type = "frequency_distribution"

ExpectedDefaultSpecs == {[name |-> "total_count", data_type |-> "integer"]}

ExpectedFacetSpecs ==
    {[frequency_distribution_data_type |-> "string", name |-> CMIP6Names[i],
      data_type |-> "frequency_distribution"] : i \in 1..Len(CMIP6Names)}

SpecsOf(aggregations) == {aggregations[i] : i \in 1..Len(aggregations)}

---------------------------------------------------------------------------
(* Concurrent requests, filter order, negation, empty compiled filters *)

\* the query execute_search sends for request parameters rq handled alone
OwnQuery(rq) ==
    LET built == BuildQuery(rq) IN
    IF built.res.kind = "return"
    THEN Return(PrepareQuery(built.res.val, LimitOf(rq), rq.token))
    ELSE built.res

\* C26: under any interleaving of concurrent search requests each request
\* builds a query object of its own, and the query it sends holds exactly the
\* filters, limit and cursor derived from its own parameters.
EachRequestSendsItsOwnQuery ==
    /\ \A r \in Clients : \A i \in DOMAIN sent[r] :
           sent[r][i] = OwnQuery(req[r]).val
    /\ \A r1 \in Clients : \A r2 \in Clients \ {r1} :
           local[r1] # 0 => local[r1] # local[r2]

\* two clients whose requests differ have both sent their query, the second
\* client having created its query object first
EachRequestSendsItsOwnQueryWitness ==
    /\ Len(sent[1]) = 1
    /\ Len(sent[2]) = 1
    /\ local[2] = 1
    /\ local[1] = 2
    /\ Has(sent[1][1], "filters")
    /\ Has(sent[2][1], "filters")
    /\ sent[1][1]["filters"] # sent[2][1]["filters"]
    /\ Has(sent[1][1], "marker")
    /\ ~Has(sent[2][1], "marker")

\* the number of predicate sources among ids, collections, datetime, bbox and
\* filter that request parameters rq supply
SuppliedSources(rq) ==
    (IF Truthy(rq.ids) THEN 1 ELSE 0)
    + (IF Truthy(rq.collections) THEN 1 ELSE 0)
    + (IF TruthyStr(rq.datetime) THEN 1 ELSE 0)
    + (IF Truthy(rq.bbox) THEN 1 ELSE 0)
    + (IF Truthy(rq.filter) THEN 1 ELSE 0)

\* C27 (as stated): whatever predicate sources a request supplies, post_search
\* gets past its datetime and intersects steps, and the query it builds holds
\* one filter per supplied source.  (post_search violates it: the datetime
\* step calls a builder method that does not exist, the intersects step
\* passes a keyword the builder's step does not have.)
PostSearchAppendsEverySource ==
    \A r \in Requests :
        (req[r].handler = "post_search" /\ pc[r] # "idle") =>
            /\ pc[r] \notin {"failed:datetime", "failed:intersects"}
            /\ ReachedBuilt(r) =>
                   Len(Get(BuildQuery(req[r]).res.val, "filters", <<>>))
                       = SuppliedSources(req[r])

RECURSIVE EveryNodeHasOp(_)
\* every node of the CQL2 tree n has an operator
EveryNodeHasOp(n) ==
    /\ Has(n, "op")
    /\ (n["op"] \in {"not", "and", "or"} /\ Has(n, "args")) =>
           \A i \in DOMAIN n["args"] : EveryNodeHasOp(n["args"][i])

RECURSIVE NoNotDirectlyUnderNot(_)
\* no "not" filter of the tree f has a "not" filter as its inner filter
NoNotDirectlyUnderNot(f) ==
    IF ~Has(f, "type") THEN TRUE
    ELSE IF f["type"] = "not"
         THEN /\ ~(Has(f["filter"], "type") /\ f["filter"]["type"] = "not")
              /\ NoNotDirectlyUnderNot(f["filter"])
         ELSE IF f["type"] \in {"and", "or"}
              THEN \A i \in DOMAIN f["filters"] :
                       NoNotDirectlyUnderNot(f["filters"][i])
              ELSE TRUE

\* C28: in every filter tree cql_to_filter returns for a CQL2 tree whose
\* every node has an operator, no "not" has a "not" as its direct inner
\* filter.
NoDoubleNegationInOutput ==
    (Compiled /\ result.kind = "return" /\ EveryNodeHasOp(node)) =>
        NoNotDirectlyUnderNot(result.val)

\* a "not" whose argument itself compiles to a "not" has been compiled
NoDoubleNegationWitness ==
    /\ Compiled
    /\ result.kind = "return"
    /\ EveryNodeHasOp(node)
    /\ node["op"] = "not"
    /\ node["args"][1]["op"] \in {"<>", "isNull"}

\* the only predicate source of request parameters rq is a non-empty filter
\* tree without an "op" key
OnlyOpLessFilter(rq) ==
    /\ rq.handler = "post_search"
    /\ ~Truthy(rq.ids)
    /\ ~Truthy(rq.collections)
    /\ ~TruthyStr(rq.datetime)
    /\ ~Truthy(rq.bbox)
    /\ ~Truthy(rq.intersects)
    /\ Truthy(rq.filter)
    /\ ~Has(rq.filter.val, "op")

\* C29 (as stated): when the only predicate source is a non-empty filter tree
\* without "op", the query sent has no entry in its filter list and has the
\* match-everything term "*" set.  (apply_cql2_filter violates it: it appends
\* the empty compiled filter, so the list is not empty and "q" is not set.)
EmptyCompiledFilterMeansNoFilter ==
    \A r \in Requests :
        (OnlyOpLessFilter(req[r]) /\ Len(sent[r]) > 0) =>
            /\ Len(Get(sent[r][1], "filters", <<>>)) = 0
            /\ Has(sent[r][1], "q")
            /\ sent[r][1]["q"] = "*"

---------------------------------------------------------------------------
(* The links of an item listing *)

\* item_collection has handed back its page for request r
Listed(r) ==
    /\ req[r].handler = "item_collection"
    /\ pc[r] = "done"

\* C30 (as stated): the links of the page item_collection returns are the
\* paging links computed from the backend's next cursor, whatever the number
\* of items and whatever links the items carry.  (item_collection violates
\* it: the loop over the items assigns each item's links to the variable
\* that holds the page links.)
PageLinksArePagingLinks ==
    \A r \in Requests :
        Listed(r) =>
            outcome[r].val.links = PagingLinks(found[r].val.next_marker)

=============================================================================
